---- MODULE Spec2Model ----
(***************************************************************************)
(* The GitHub statistics job: the credential check, the two GraphQL round  *)
(* trips, the aggregation of the fetched repositories and the rewrite of   *)
(* the marked region of README.md.  Two scripts share the skeleton: the    *)
(* contribution-aware one and scripts/stats.js, which counts every fetched *)
(* repository.                                                             *)
(*                                                                         *)
(* Strings the program inspects or builds are sequences of tokens: a      *)
(* marker, a label, a number's decimal form are one token each.  The       *)
(* emoji of the headings are left out of the labels, toLocaleString        *)
(* prints the plain decimal form (the numbers stay below 1000), and the    *)
(* rendered block holds no "$", so String.replace inserts it verbatim.     *)
(* Math.round(bytes / totalBytes * 100) is exact round-half-up: the        *)
(* double computation agrees with it for every totalBytes below 40.        *)
(***************************************************************************)
EXTENDS Integers, Sequences, FiniteSets, TLC

VARIABLES
    script,       \* which of the two scripts runs
    env,          \* process.env: GH_USER and GH_TOKEN
    pc,           \* position of the process
    exitCode,     \* exit status of the process, NoExit while it runs
    stderr,       \* what console.error and the runtime reported
    requests,     \* queries POSTed by this process, in order
    fetchFailed,  \* some response of this process was not a clean success
    countData,    \* data of the count query
    data,         \* data of the detail query
    report,       \* the aggregate of this run
    md,           \* the rendered block
    original,     \* README.md as read by fs.readFileSync
    file,         \* README.md on disk
    writes,       \* fs.writeFileSync calls of this process
    run,          \* how many times the job has been started
    prev          \* md and file at the end of the previous run

vars == <<script, env, pc, exitCode, stderr, requests, fetchFailed, countData,
          data, report, md, original, file, writes, run, prev>>

----------------------------------------------------------------------------
(* Bounds *)

MaxDocLen == 4
MaxRuns == 2
MaxClock == 1
MaxRepos == 2
MaxCount == 1
MaxLangs == 7
MaxSize == 1

----------------------------------------------------------------------------
(* Values *)

Null == <<>>
Unset == "<undefined>"
NoExit == 0 - 1

START == "<!--GITHUB_STATS_START-->"
END == "<!--GITHUB_STATS_END-->"
NL == "\n"
EMDASH == "&mdash;"
MOJIBAKE == "&acirc;&euro;&rdquo;"
NAN == "NaN"

TopN == 6

\* languages(first: 10)
LanguagePage == 10

Min(a, b) == IF a < b THEN a ELSE b

SeqsUpTo(S, n) == UNION {[1..k -> S] : k \in 0..n}

----------------------------------------------------------------------------
(* Credentials *)

Falsy(s) == s = Unset \/ s = ""

MissingCredentialsAnd(e) == Falsy(e.GH_USER) /\ Falsy(e.GH_TOKEN)

MissingCredentials(e) == Falsy(e.GH_USER) \/ Falsy(e.GH_TOKEN)

----------------------------------------------------------------------------
(* The GraphQL transport *)

\* What one POST can come back with: the fetch or the body parse rejects, or
\* a JSON body arrives with or without an errors member and with or without
\* a data member.
Responses ==
    [transport : {"ok", "rejected"}, errors : BOOLEAN, hasData : BOOLEAN]

\* A response that is a plain success of the query.
Clean(resp) == resp.transport = "ok" /\ ~resp.errors /\ resp.hasData

HasErrorsNever(resp) == FALSE

\* if (json.errors)
HasErrors(resp) == resp.errors

\* gql: "throw" when an await rejects, "exit" on an errors payload, else the
\* data is returned; absent data makes the caller's property access throw.
GqlOutcome(resp) ==
    IF resp.transport = "rejected" THEN "throw"
    ELSE IF HasErrors(resp) THEN "exit"
    ELSE IF ~resp.hasData THEN "throw"
    ELSE "return"

----------------------------------------------------------------------------
(* Fetched data *)

LangNames == <<"Go", "Rust", "TS", "C", "Java", "Ruby", "Perl", "Lua", "Zig", "Nim">>

Edge(n, s) == [name |-> n, size |-> s]

\* One repository node of the detail query; ref is the identity of the parsed
\* object, which Array.prototype.includes compares.
Repo(stars, forks, fork, branch, prs, langs) ==
    [ref |-> <<0, 0>>, stargazerCount |-> stars, forkCount |-> forks,
     isFork |-> fork, defaultBranchRef |-> branch, pullRequests |-> prs,
     languages |-> langs]

RECURSIVE NodesFrom(_, _, _)
NodesFrom(p, bodies, i) ==
    IF i > Len(bodies) THEN <<>>
    ELSE <<[bodies[i] EXCEPT !.ref = <<p, i>>]>> \o NodesFrom(p, bodies, i + 1)

\* JSON.parse makes a fresh object per node: partition p, position i.
Nodes(p, bodies) == NodesFrom(p, bodies, 1)

Contributions ==
    [totalCommitContributions |-> 4, totalIssueContributions |-> 3,
     totalPullRequestContributions |-> 2,
     totalPullRequestReviewContributions |-> 1,
     restrictedContributionsCount |-> 0]

\* data.viewer of the detail query.
Viewer(op, opr, gp, gpr) ==
    [login |-> "octocat", followers |-> 1,
     contributionsCollection |-> Contributions,
     ownedPublic |-> Nodes(1, op), ownedPrivate |-> Nodes(2, opr),
     orgPublic |-> Nodes(3, gp), orgPrivate |-> Nodes(4, gpr)]

NoViewer == Viewer(<<>>, <<>>, <<>>, <<>>)

\* countData.viewer: the three totalCount scalars.
Counts(owned, org, orgs) ==
    [ownedRepos |-> owned, orgRepos |-> org, organizations |-> orgs]

NoCounts == Counts(0, 0, 0)

----------------------------------------------------------------------------
(* Aggregation *)

Concat4(a, b, c, d) == a \o b \o c \o d

\* allRepos of the contribution-aware script.
AllRepos(v) ==
    Concat4(v.ownedPublic, v.ownedPrivate, v.orgPublic, v.orgPrivate)

\* allRepos of scripts/stats.js: the public list, then the private list, each
\* holding the owned and the organization repositories of that visibility.
AllReposStats(v) ==
    Concat4(v.ownedPublic, v.orgPublic, v.ownedPrivate, v.orgPrivate)

\* nodes.includes(repo)
Includes(nodes, repo) == \E i \in DOMAIN nodes : nodes[i].ref = repo.ref

IsOwned(v, repo) ==
    Includes(v.ownedPublic, repo) \/ Includes(v.ownedPrivate, repo)

IsOrg(v, repo) ==
    Includes(v.orgPublic, repo) \/ Includes(v.orgPrivate, repo)

\* repo.defaultBranchRef?.target?.history?.totalCount || 0
CommitCount(repo) ==
    IF repo.defaultBranchRef = Null THEN 0 ELSE repo.defaultBranchRef[1]

\* repo.pullRequests?.totalCount || 0
PRCount(repo) ==
    IF repo.pullRequests = Null THEN 0 ELSE repo.pullRequests[1]

ContributedAtLeastZero(v, repo) ==
    IF IsOwned(v, repo) THEN TRUE ELSE CommitCount(repo) >= 0

\* The filter callback of contributedRepos.
Contributed(v, repo) ==
    IF IsOwned(v, repo) THEN TRUE ELSE CommitCount(repo) > 0

ContributedRepos(v) == SelectSeq(AllRepos(v), LAMBDA r : Contributed(v, r))

\* What the callback of a reduce adds to the sum for one element.
Addend(key, x) ==
    CASE key = "stargazerCount" -> x.stargazerCount
      [] key = "forkCount" -> x.forkCount
      [] key = "commits" -> CommitCount(x)
      [] key = "pullRequests" -> PRCount(x)
      [] key = "bytes" -> x.bytes

RECURSIVE Reduce(_, _, _)
\* seq.reduce((s, x) => s + <addend of x>, init)
Reduce(key, seq, init) ==
    IF seq = <<>> THEN init
    ELSE Reduce(key, Tail(seq), init + Addend(key, Head(seq)))

RECURSIVE Edges(_)
\* The (repo, edge) pairs the nested for-of loops visit, in order.
Edges(repos) ==
    IF repos = <<>> THEN <<>>
    ELSE Head(repos).languages \o Edges(Tail(repos))

\* langMap[lang] = (langMap[lang] || 0) + edge.size, on an object whose
\* entries keep insertion order.
AddEdge(map, edge) ==
    IF \E i \in DOMAIN map : map[i].name = edge.name
    THEN [i \in DOMAIN map |->
            IF map[i].name = edge.name
            THEN [map[i] EXCEPT !.bytes = @ + edge.size]
            ELSE map[i]]
    ELSE Append(map, [name |-> edge.name, bytes |-> edge.size])

RECURSIVE FoldEdges(_, _)
FoldEdges(map, edges) ==
    IF edges = <<>> THEN map
    ELSE FoldEdges(AddEdge(map, Head(edges)), Tail(edges))

LangMap(repos) == FoldEdges(<<>>, Edges(repos))

TotalBytes(map) == Reduce("bytes", map, 0)

InsertDescUnstable(sorted, e) ==
    LET k == Cardinality({i \in DOMAIN sorted : sorted[i].bytes > e.bytes})
    IN SubSeq(sorted, 1, k) \o <<e>> \o SubSeq(sorted, k + 1, Len(sorted))

\* Where a stable sort by (a, b) => b[1] - a[1] puts e among sorted entries
\* that all came before it: behind every entry that is not smaller.
InsertDesc(sorted, e) ==
    LET k == Cardinality({i \in DOMAIN sorted : sorted[i].bytes >= e.bytes})
    IN SubSeq(sorted, 1, k) \o <<e>> \o SubSeq(sorted, k + 1, Len(sorted))

RECURSIVE SortDesc(_)
SortDesc(entries) ==
    IF entries = <<>> THEN <<>>
    ELSE InsertDesc(SortDesc(SubSeq(entries, 1, Len(entries) - 1)),
                    entries[Len(entries)])

\* .slice(0, 6)
Slice(entries) == SubSeq(entries, 1, Min(TopN, Len(entries)))

\* Math.round(bytes / totalBytes * 100): 0 / 0 is NaN, and a quotient is
\* rounded to the nearest integer, a half upwards.
Percent(bytes, total) ==
    IF total = 0 THEN NAN
    ELSE ToString((200 * bytes + total) \div (2 * total))

\* `${name} (${...}%)`
Entry(e, total) == <<e.name, " (", Percent(e.bytes, total), "%)">>

RECURSIVE Join(_, _)
\* .map(...).join(", ")
Join(entries, total) ==
    IF entries = <<>> THEN <<>>
    ELSE IF Len(entries) = 1 THEN Entry(entries[1], total)
    ELSE Entry(Head(entries), total) \o <<", ">> \o Join(Tail(entries), total)

\* The literal behind || in each script.
Placeholder(s) == IF s = "stats" THEN MOJIBAKE ELSE EMDASH

\* topLangs: the joined list, or the placeholder when the list is "".
TopLangs(map, s) ==
    LET joined == Join(Slice(SortDesc(map)), TotalBytes(map))
    IN IF joined = <<>> THEN <<Placeholder(s)>> ELSE joined

ReposOfAllFetched(s, v) == IF s = "stats" THEN AllReposStats(v) ELSE AllRepos(v)

\* The repositories each script aggregates: scripts/stats.js takes every
\* fetched one, the contribution-aware script its filtered list.
ReposOf(s, v) ==
    IF s = "stats" THEN AllReposStats(v) ELSE ContributedRepos(v)

\* Everything main computes between the detail response and the template.
\* scripts/stats.js computes only stars, forks and the languages; its other
\* fields stay 0.
Aggregate(s, v) ==
    LET repos == ReposOf(s, v)
        full == s # "stats"
        map == LangMap(repos)
    IN [contributed |-> repos,
        stars |-> Reduce("stargazerCount", repos, 0),
        forks |-> Reduce("forkCount", repos, 0),
        totalCommits |-> IF full THEN Reduce("commits", repos, 0) ELSE 0,
        totalPRs |-> IF full THEN Reduce("pullRequests", repos, 0) ELSE 0,
        ownedContributed |->
            IF full THEN Len(SelectSeq(repos, LAMBDA r : IsOwned(v, r))) ELSE 0,
        orgContributed |->
            IF full THEN Len(SelectSeq(repos, LAMBDA r : IsOrg(v, r))) ELSE 0,
        forkedRepos |->
            IF full THEN Len(SelectSeq(repos, LAMBDA r : r.isFork)) ELSE 0,
        langMap |-> map,
        totalBytes |-> TotalBytes(map),
        topLangs |-> TopLangs(map, s)]

NoReport == Aggregate("part_000", NoViewer)

----------------------------------------------------------------------------
(* The rendered block *)

\* new Date().toISOString()
ISO(t) == <<"T", ToString(t), "Z">>

\* The template literal md of the contribution-aware script.
RenderFull(cd, v, rep, t) ==
    <<NL, "**GitHub Stats for @", v.login, "**", NL, NL,
      "### Repository Statistics", NL,
      "- **Total Repositories**: ", ToString(cd.ownedRepos + cd.orgRepos),
      " (", ToString(cd.ownedRepos), " owned, ", ToString(cd.orgRepos), " org)", NL,
      "- **Repositories with Contributions**: ", ToString(Len(rep.contributed)),
      " (", ToString(rep.ownedContributed), " owned, ",
      ToString(rep.orgContributed), " org)", NL,
      "- **Forked Repositories**: ", ToString(rep.forkedRepos), NL,
      "- **Total Stars Earned**: ", ToString(rep.stars), NL,
      "- **Total Forks**: ", ToString(rep.forks), NL, NL,
      "### Contribution Statistics", NL,
      "- **Total Commits**: ",
      ToString(v.contributionsCollection.totalCommitContributions),
      " (this year)", NL,
      "- **Total Commits in Repos**: ", ToString(rep.totalCommits),
      " (all time in fetched repos)", NL,
      "- **Pull Requests**: ",
      ToString(v.contributionsCollection.totalPullRequestContributions),
      " (this year)", NL,
      "- **Issues Opened**: ",
      ToString(v.contributionsCollection.totalIssueContributions),
      " (this year)", NL,
      "- **Code Reviews**: ",
      ToString(v.contributionsCollection.totalPullRequestReviewContributions),
      " (this year)", NL, NL,
      "### Community", NL,
      "- **Organizations**: ", ToString(cd.organizations), NL,
      "- **Followers**: ", ToString(v.followers), NL, NL,
      "### Top Languages", NL>>
    \o rep.topLangs \o <<NL, NL, "_Last updated: ">> \o ISO(t) \o <<"_", NL>>

\* The template literal md of scripts/stats.js.
RenderStats(cd, v, rep, t) ==
    <<NL, "**GitHub Stats for @", v.login, "**", NL, NL,
      "- Total Repositories (personal + org): **",
      ToString(cd.ownedRepos + cd.orgRepos), "**", NL,
      "- Total Stars (from ", ToString(Len(rep.contributed)), " repos): **",
      ToString(rep.stars), "**", NL,
      "- Total Forks (from ", ToString(Len(rep.contributed)), " repos): **",
      ToString(rep.forks), "**", NL,
      "- Organizations: **", ToString(cd.organizations), "**", NL,
      "- Followers: **", ToString(v.followers), "**", NL,
      "- Top Languages: ">>
    \o rep.topLangs \o <<NL, NL, "_Last updated: ">> \o ISO(t) \o <<"_", NL>>

Render(s, cd, v, rep, t) ==
    IF s = "stats" THEN RenderStats(cd, v, rep, t) ELSE RenderFull(cd, v, rep, t)

----------------------------------------------------------------------------
(* The document *)

\* The second argument of readme.replace.
Replacement(block) == <<START, NL>> \o block \o <<NL, END>>

Least(S) == CHOOSE i \in S : \A k \in S : i <= k
Greatest(S) == CHOOSE i \in S : \A k \in S : i >= k

Starts(doc) == {i \in DOMAIN doc : doc[i] = START}
Ends(doc) == {j \in DOMAIN doc : doc[j] = END}

\* /<!--GITHUB_STATS_START-->[\s\S]*<!--GITHUB_STATS_END-->/ matches when an
\* end marker stands behind a start marker, that is, behind the first one.
Matches(doc) ==
    /\ Starts(doc) # {}
    /\ \E j \in Ends(doc) : j > Least(Starts(doc))

\* The match is the leftmost one: it begins at the first start marker.
MatchFrom(doc) == Least(Starts(doc))

MatchToLazy(doc) ==
    LET from == MatchFrom(doc)
    IN Least({j \in Ends(doc) : j > from})

\* [\s\S]* is greedy: the match ends at the last end marker of the document.
MatchTo(doc) == Greatest(Ends(doc))

\* doc with the tokens from..to replaced by repl.
Splice(doc, from, to, repl) ==
    SubSeq(doc, 1, from - 1) \o repl \o SubSeq(doc, to + 1, Len(doc))

ReplaceKeepingOld(doc, repl) ==
    IF ~Matches(doc) THEN doc
    ELSE Splice(doc, MatchTo(doc) + 1, MatchTo(doc), repl)

ReplaceOrAppend(doc, repl) ==
    IF ~Matches(doc) THEN doc \o repl
    ELSE Splice(doc, MatchFrom(doc), MatchTo(doc), repl)

\* readme.replace(regex, string): the first match is replaced, no match
\* leaves the string as it is.
Replace(doc, repl) ==
    IF ~Matches(doc) THEN doc
    ELSE Splice(doc, MatchFrom(doc), MatchTo(doc), repl)

----------------------------------------------------------------------------
(* Inputs *)

Scripts == {"part_000", "stats"}

GoodEnv == [GH_USER |-> "octocat", GH_TOKEN |-> "ghp_secret"]

Envs == [GH_USER : {Unset, "", "octocat"}, GH_TOKEN : {Unset, "", "ghp_secret"}]

Docs == SeqsUpTo({START, END, "text"}, MaxDocLen)

\* Three owned repositories (stars 5, 2, 0; one a fork) and two organization
\* repositories, one with 3 commits on its default branch and one with none.
ScenarioViewer ==
    Viewer(<<Repo(5, 1, FALSE, <<7>>, <<2>>, <<Edge("Go", 200), Edge("Rust", 100)>>),
             Repo(2, 0, TRUE, Null, <<0>>, <<>>)>>,
           <<Repo(0, 2, FALSE, <<1>>, Null, <<Edge("Go", 100)>>)>>,
           <<Repo(0, 0, FALSE, <<3>>, <<1>>, <<Edge("TS", 100)>>)>>,
           <<Repo(4, 3, TRUE, <<0>>, <<5>>, <<Edge("C", 900)>>)>>)

\* What new Date() can read.
Times == 0..MaxClock

CountSet == {Counts(3, 2, 1)}

DetailSet == {NoViewer, ScenarioViewer}

Branches == {Null} \cup {<<n>> : n \in 0..MaxCount}

\* Repository nodes that differ in the default branch and one other field.
StarKinds == {Repo(n, 0, FALSE, b, <<0>>, <<>>) : n \in 0..MaxCount, b \in Branches}
ForkKinds == {Repo(0, n, FALSE, b, <<0>>, <<>>) : n \in 0..MaxCount, b \in Branches}
IsForkKinds == {Repo(0, 0, k, b, <<0>>, <<>>) : k \in BOOLEAN, b \in Branches}
PRKinds ==
    {Repo(0, 0, FALSE, b, p, <<>>) :
        p \in {Null} \cup {<<n>> : n \in 1..MaxCount}, b \in Branches}

\* How many nodes each of the four partitions holds.
Shapes ==
    {s \in [1..4 -> 0..MaxRepos] : s[1] + s[2] + s[3] + s[4] <= MaxRepos}

Families == {StarKinds, ForkKinds, IsForkKinds, PRKinds}

\* A family of nodes and a shape name the responses of that shape over it.
AggSeeds == [tag : {"shape"}, kinds : Families, shape : Shapes]

AggViewers(seed) ==
    {Viewer(a, b, c, d) :
        a \in [1..seed.shape[1] -> seed.kinds],
        b \in [1..seed.shape[2] -> seed.kinds],
        c \in [1..seed.shape[3] -> seed.kinds],
        d \in [1..seed.shape[4] -> seed.kinds]}

RECURSIVE EdgesOf(_, _)
\* The first Len(sizes) languages with the given sizes.
EdgesOf(sizes, i) ==
    IF i > Len(sizes) THEN <<>>
    ELSE <<Edge(LangNames[i], sizes[i])>> \o EdgesOf(sizes, i + 1)

\* No organization repository, or one listing a single language, with or
\* without commits on its default branch.
OneLangLists ==
    {<<>>} \cup
    {<<Repo(0, 0, FALSE, b, <<0>>, <<Edge(LangNames[i], z)>>)>> :
        i \in 1..MaxLangs, z \in 0..MaxSize, b \in {Null, <<1>>}}

LangSeeds == [tag : {"languages"}, k : 0..MaxLangs]

\* An owned repository listing the first k languages, beside the lists of
\* OneLangLists.
LangViewers(k) ==
    {Viewer(<<Repo(0, 0, FALSE, <<1>>, <<0>>, EdgesOf(f, 1))>>, <<>>, o, <<>>) :
        f \in [1..k -> 1..MaxSize], o \in OneLangLists}

\* The responses fixed one by one.
Fixtures == {[tag |-> "fixed"]}

\* The one response of the runs that are about the process and the document.
Scenario == {[tag |-> "scenario"]}

\* The data the detail query can return for a seed.
Viewers(seed) ==
    CASE seed.tag = "shape" -> AggViewers(seed)
      [] seed.tag = "languages" -> LangViewers(seed.k)
      [] seed.tag = "fixed" -> DetailSet
      [] seed.tag = "scenario" -> {ScenarioViewer}

----------------------------------------------------------------------------
(* The process *)

NoPrev == [md |-> <<>>, file |-> <<>>, original |-> <<>>, wrote |-> FALSE]

Fresh ==
    /\ pc = "start"
    /\ exitCode = NoExit
    /\ stderr = <<>>
    /\ requests = <<>>
    /\ fetchFailed = FALSE
    /\ countData = NoCounts
    /\ data = NoViewer
    /\ report = NoReport
    /\ md = <<>>
    /\ original = <<>>
    /\ writes = 0

Init ==
    /\ Fresh
    /\ script \in Scripts
    /\ env \in Envs
    /\ file \in Docs
    /\ run = 1
    /\ prev = NoPrev

\* Module top level with a credential missing: console.error, process.exit(1).
StartMissing ==
    /\ pc = "start"
    /\ MissingCredentials(env)
    /\ stderr' = Append(stderr, "Missing GH_USER or GH_TOKEN")
    /\ exitCode' = 1
    /\ pc' = "exited"
    /\ UNCHANGED <<script, env, requests, fetchFailed, countData, data, report,
                   md, original, file, writes, run, prev>>

StartMainConcurrent ==
    /\ pc = "start"
    /\ ~MissingCredentials(env)
    /\ requests' = requests \o <<"count", "detail">>
    /\ pc' = "await_count"
    /\ UNCHANGED <<script, env, exitCode, stderr, fetchFailed, countData, data,
                   report, md, original, file, writes, run, prev>>

\* Module top level with both credentials: main() runs up to the await of
\* the count query's fetch.
StartMain ==
    /\ pc = "start"
    /\ ~MissingCredentials(env)
    /\ requests' = Append(requests, "count")
    /\ pc' = "await_count"
    /\ UNCHANGED <<script, env, exitCode, stderr, fetchFailed, countData, data,
                   report, md, original, file, writes, run, prev>>

Awaiting == pc \in {"await_count", "await_detail"}

\* fetch or res.json() rejects, or the returned data is undefined and
\* main's first property access throws: main() is not caught, and the
\* runtime ends the process on the unhandled rejection with status 1.
GqlThrows ==
    /\ Awaiting
    /\ \E resp \in Responses :
        /\ GqlOutcome(resp) = "throw"
        /\ fetchFailed' = (fetchFailed \/ ~Clean(resp))
    /\ stderr' = Append(stderr, "UnhandledPromiseRejection")
    /\ exitCode' = 1
    /\ pc' = "exited"
    /\ UNCHANGED <<script, env, requests, countData, data, report, md,
                   original, file, writes, run, prev>>

\* gql sees json.errors: console.error, process.exit(1).
GqlErrors ==
    /\ Awaiting
    /\ \E resp \in Responses :
        /\ GqlOutcome(resp) = "exit"
        /\ fetchFailed' = (fetchFailed \/ ~Clean(resp))
    /\ stderr' = Append(stderr, "GraphQL Errors:")
    /\ exitCode' = 1
    /\ pc' = "exited"
    /\ UNCHANGED <<script, env, requests, countData, data, report, md,
                   original, file, writes, run, prev>>

\* The count query returns data: main goes on to the await of the detail
\* query's fetch.
CountOk(C) ==
    /\ pc = "await_count"
    /\ \E resp \in Responses, cd \in C :
        /\ GqlOutcome(resp) = "return"
        /\ fetchFailed' = (fetchFailed \/ ~Clean(resp))
        /\ countData' = cd
    /\ requests' = Append(requests, "detail")
    /\ pc' = "await_detail"
    /\ UNCHANGED <<script, env, exitCode, stderr, data, report, md, original,
                   file, writes, run, prev>>

\* The detail query returns data: main aggregates, renders, reads the
\* document, replaces the marked region, writes the document and returns;
\* the process ends with status 0.  Viewers(seed), for the seeds of Seeds,
\* are the data the query can return and T the times new Date() can read.
DetailOk(Seeds, T) ==
    /\ pc = "await_detail"
    /\ \E resp \in Responses, seed \in Seeds, t \in T : \E v \in Viewers(seed) :
        /\ GqlOutcome(resp) = "return"
        /\ fetchFailed' = (fetchFailed \/ ~Clean(resp))
        /\ data' = v
        /\ report' = Aggregate(script, v)
        /\ md' = Render(script, countData, v, Aggregate(script, v), t)
    /\ original' = file
    /\ file' = Replace(file, Replacement(md'))
    /\ writes' = writes + 1
    /\ exitCode' = 0
    /\ pc' = "exited"
    /\ UNCHANGED <<script, env, stderr, requests, countData, run, prev>>

\* The job is started again on the document the last run left.
Rerun ==
    /\ pc = "exited"
    /\ run < MaxRuns
    /\ pc' = "start"
    /\ exitCode' = NoExit
    /\ stderr' = <<>>
    /\ requests' = <<>>
    /\ fetchFailed' = FALSE
    /\ countData' = NoCounts
    /\ data' = NoViewer
    /\ report' = NoReport
    /\ md' = <<>>
    /\ original' = <<>>
    /\ writes' = 0
    /\ run' = run + 1
    /\ prev' = [md |-> md, file |-> file, original |-> original,
                wrote |-> writes > 0]
    /\ UNCHANGED <<script, env, file>>

Next ==
    \/ StartMissing
    \/ StartMain
    \/ GqlThrows
    \/ GqlErrors
    \/ CountOk(CountSet)
    \/ DetailOk(Scenario, Times)
    \/ Rerun

Spec == Init /\ [][Next]_vars

\* The aggregation on its own: one good run of the contribution-aware
\* script over the fixed responses and those of AggViewers.
InitAgg ==
    /\ Fresh
    /\ script = "part_000"
    /\ env = GoodEnv
    /\ file = <<"text", START, "text", END, "text">>
    /\ run = 1
    /\ prev = NoPrev

NextAgg ==
    \/ StartMain
    \/ CountOk(CountSet)
    \/ DetailOk(Fixtures, {0})
    \/ DetailOk(AggSeeds, {0})

SpecAgg == InitAgg /\ [][NextAgg]_vars

\* The language ranking on its own: one good run of either script over
\* the fixed responses and those of LangViewers.
InitLang ==
    /\ Fresh
    /\ script \in Scripts
    /\ env = GoodEnv
    /\ file = <<"text", START, "text", END, "text">>
    /\ run = 1
    /\ prev = NoPrev

NextLang ==
    \/ StartMain
    \/ CountOk(CountSet)
    \/ DetailOk(Fixtures, {0})
    \/ DetailOk(LangSeeds, {0})

SpecLang == InitLang /\ [][NextLang]_vars

----------------------------------------------------------------------------
(* Properties *)

Succeeded == pc = "exited" /\ exitCode = 0

Both == <<"count", "detail">>

\* C1: a run in which a query failed (an errors payload, a rejected
\* request, a body without data) has ended with status 1 without reading or
\* writing README.md; a run that wrote it saw two clean responses and wrote
\* the document with the block rendered from them.
C1_FetchFailureAborts ==
    /\ fetchFailed =>
        /\ pc = "exited"
        /\ exitCode = 1
        /\ writes = 0
        /\ original = <<>>
        /\ md = <<>>
    /\ writes > 0 =>
        /\ ~fetchFailed
        /\ requests = Both
        /\ \E t \in Times : md = Render(script, countData, data, report, t)
        /\ file = Replace(original, Replacement(md))

C1_Witness ==
    /\ fetchFailed
    /\ requests = Both
    /\ pc = "exited"
    /\ \E i \in DOMAIN file : file[i] = START /\ \E j \in DOMAIN file : j > i /\ file[j] = END

\* C2: with GH_USER or GH_TOKEN absent or empty the process reports the
\* error and ends with status 1, and never sends a request, reads the
\* document or writes it.
C2_MissingCredentialsExit ==
    (env.GH_USER \in {Unset, ""} \/ env.GH_TOKEN \in {Unset, ""}) =>
        /\ pc \in {"start", "exited"}
        /\ requests = <<>>
        /\ writes = 0
        /\ original = <<>>
        /\ pc = "exited" =>
            /\ exitCode = 1
            /\ stderr = <<"Missing GH_USER or GH_TOKEN">>

C2_Witness ==
    /\ env.GH_USER = "octocat"
    /\ env.GH_TOKEN = ""
    /\ pc = "exited"
    /\ exitCode = 1

\* The fetched records, told apart by the partition each was fetched in.
Fetched == LET all == AllRepos(data) IN {all[i] : i \in DOMAIN all}

FromOwned(r) == r.ref[1] \in {1, 2}
FromOrg(r) == r.ref[1] \in {3, 4}

HasCommits(r) == r.defaultBranchRef # <<>> /\ r.defaultBranchRef[1] > 0

\* The records of the contributed list.
Kept == {report.contributed[k] : k \in DOMAIN report.contributed}

\* C3: after a run of the contribution-aware script every record fetched in
\* an owned partition is in the contributed list whatever its commit count,
\* and a record fetched in an organization partition is in it exactly when
\* its default branch exists and counts more than zero commits.
C3_InclusionPredicate ==
    (Succeeded /\ script = "part_000") =>
        LET fetched == Fetched
            kept == Kept
        IN /\ \A r \in fetched :
                /\ FromOwned(r) => r \in kept
                /\ FromOrg(r) => (r \in kept <=> HasCommits(r))
           /\ kept \subseteq fetched

C3_Witness ==
    /\ Succeeded
    /\ script = "part_000"
    /\ \E r \in Fetched : FromOwned(r) /\ r.defaultBranchRef = <<>> /\ r \in Kept
    /\ \E r \in Fetched : FromOrg(r) /\ r.defaultBranchRef = <<0>> /\ r \notin Kept
    /\ \E r \in Fetched : FromOrg(r) /\ HasCommits(r) /\ r \in Kept

\* The records the inclusion rule keeps.
Included == {r \in Fetched : FromOwned(r) \/ HasCommits(r)}

RECURSIVE SetSum(_, _)
SetSum(f(_), S) ==
    IF S = {} THEN 0
    ELSE LET x == CHOOSE y \in S : TRUE IN f(x) + SetSum(f, S \ {x})

StarsOf(r) == r.stargazerCount
ForksOf(r) == r.forkCount
CommitsOrZero(r) == IF r.defaultBranchRef = <<>> THEN 0 ELSE r.defaultBranchRef[1]
PRsOrZero(r) == IF r.pullRequests = <<>> THEN 0 ELSE r.pullRequests[1]

\* C8: the totals of the contribution-aware script are sums over the
\* included records alone (stars, forks, commits, pull requests, the number
\* of forks), an absent commit or pull-request count adding zero; the
\* scenario of three owned and two organization repositories gives 4
\* contributed, 1 fork and 7 stars.
C8_TotalsOverContributed ==
    (Succeeded /\ script = "part_000") =>
        LET inc == Included
        IN /\ Len(report.contributed) = Cardinality(inc)
           /\ report.stars = SetSum(StarsOf, inc)
           /\ report.forks = SetSum(ForksOf, inc)
           /\ report.totalCommits = SetSum(CommitsOrZero, inc)
           /\ report.totalPRs = SetSum(PRsOrZero, inc)
           /\ report.forkedRepos = Cardinality({r \in inc : r.isFork})
           /\ report.ownedContributed = Cardinality({r \in inc : FromOwned(r)})
           /\ report.orgContributed = Cardinality({r \in inc : FromOrg(r)})
           /\ data = ScenarioViewer =>
                /\ Len(report.contributed) = 4
                /\ report.forkedRepos = 1
                /\ report.stars = 7

C8_Witness ==
    /\ Succeeded
    /\ script = "part_000"
    /\ data = ScenarioViewer
    /\ \E r \in Fetched \ Included : r.stargazerCount > 0 /\ r.isFork
    /\ \E r \in Included : r.pullRequests = <<>>
    /\ \E r \in Included : r.defaultBranchRef = <<>>

\* The records a script aggregates: scripts/stats.js keeps every fetched one.
Counted == IF script = "stats" THEN Fetched ELSE Included

\* The list of repositories a script walks.
Walked == IF script = "stats" THEN AllReposStats(data) ELSE AllRepos(data)

\* q is met before o: an earlier repository, or an earlier edge of the same.
Earlier(q, o) == q[1] < o[1] \/ (q[1] = o[1] /\ q[2] < o[2])

\* The languages of the counted records: their names, the bytes of each
\* summed over every counted record, the place each is first met (edge j of
\* repository i), and the bytes of all together.
Languages ==
    LET walked == Walked
        counted == Counted
        met == {q \in (DOMAIN walked) \X (1..LanguagePage) :
                    q[2] <= Len(walked[q[1]].languages)
                    /\ walked[q[1]] \in counted}
        name(q) == walked[q[1]].languages[q[2]].name
        size(q) == walked[q[1]].languages[q[2]].size
        names == {name(q) : q \in met}
    IN [names |-> names,
        bytes |-> [n \in names |-> SetSum(size, {q \in met : name(q) = n})],
        first |-> [n \in names |->
                    CHOOSE q \in met :
                        /\ name(q) = n
                        /\ \A o \in met : name(o) = n => ~Earlier(o, q)],
        total |-> SetSum(size, met)]

\* n ranks before m: more bytes, or as many and met earlier.
RanksBefore(L, n, m) ==
    \/ L.bytes[n] > L.bytes[m]
    \/ L.bytes[n] = L.bytes[m] /\ Earlier(L.first[n], L.first[m])

\* The rendered list read back: entry k is name, " (", percentage, "%)", and
\* entries are separated by ", ".
Listed == (Len(report.topLangs) + 1) \div 5
NameAt(k) == report.topLangs[5 * k - 4]
PercentAt(k) == report.topLangs[5 * k - 2]

WellFormedList ==
    /\ Len(report.topLangs) = 5 * Listed - 1
    /\ \A k \in 1..Listed :
        /\ report.topLangs[5 * k - 3] = " ("
        /\ report.topLangs[5 * k - 1] = "%)"
        /\ k < Listed => report.topLangs[5 * k] = ", "

\* p is bytes / total * 100 rounded to the nearest integer, a half upwards.
Rounds(p, bytes, total) ==
    /\ 2 * total * p <= 200 * bytes + total
    /\ 200 * bytes + total < 2 * total * (p + 1)

\* C4: with no language bytes among the counted repositories the language
\* field is the placeholder and holds no "NaN".
C4_PlaceholderWhenNoBytes ==
    (Succeeded /\ Languages.total = 0) =>
        /\ report.topLangs \in {<<EMDASH>>, <<MOJIBAKE>>}
        /\ \A i \in DOMAIN report.topLangs : report.topLangs[i] # NAN

\* C7: the list names the min(6, number of languages) first languages in
\* the order of accumulated bytes, descending, equal sums in the order the
\* languages were first met; each percentage is the language's own share of
\* all bytes, rounded on its own; {Go: 300, Rust: 100, TS: 100} reads
\* "Go (60%), Rust (20%), TS (20%)".
C7_LanguageRanking ==
    Succeeded =>
        LET L == Languages
            n == Listed
        IN L.names # {} =>
            /\ WellFormedList
            /\ n = Min(6, Cardinality(L.names))
            /\ \A k \in 1..n : NameAt(k) \in L.names
            /\ \A k \in 1..n, l \in 1..n :
                k < l => RanksBefore(L, NameAt(k), NameAt(l))
            /\ \A m \in L.names :
                (\A k \in 1..n : NameAt(k) # m) =>
                    \A k \in 1..n : RanksBefore(L, NameAt(k), m)
            /\ L.total > 0 =>
                \A k \in 1..n :
                    \E p \in 0..100 :
                        /\ PercentAt(k) = ToString(p)
                        /\ Rounds(p, L.bytes[NameAt(k)], L.total)
            /\ (script = "part_000" /\ data = ScenarioViewer) =>
                report.topLangs = <<"Go", " (", "60", "%)", ", ",
                                    "Rust", " (", "20", "%)", ", ",
                                    "TS", " (", "20", "%)">>

\* Seven languages, one of them raised by a second repository past
\* languages met before it, two level on bytes across the cut at six, and a
\* share of exactly 12.5 per cent.
C7_Witness ==
    /\ Succeeded
    /\ LET L == Languages
       IN /\ Cardinality(L.names) > 6
          /\ Listed = 6
          /\ \E m \in L.names :
                L.bytes[m] > L.bytes[NameAt(6)] /\ L.first[m] # <<1, 1>>
          /\ \E m \in L.names :
                /\ \A k \in 1..6 : NameAt(k) # m
                /\ L.bytes[m] = L.bytes[NameAt(6)]
          /\ \E k \in 1..6 : PercentAt(k) = "13" /\ 8 * L.bytes[NameAt(k)] = L.total

\* The document was updated in this run.
Updated == pc = "exited" /\ writes = 1

\* The freshly rendered block between the two markers.
Wrapped == <<START, NL>> \o md \o <<NL, END>>

Before(doc, i) == SubSeq(doc, 1, i - 1)
After(doc, j) == SubSeq(doc, j + 1, Len(doc))

\* A start marker at i with an end marker behind it at j.
MarkerPair(doc, i, j) ==
    /\ i \in DOMAIN doc /\ j \in DOMAIN doc
    /\ i < j /\ doc[i] = START /\ doc[j] = END

\* C5 as stated, the markers being the first start marker and the end
\* marker that closes it: the update keeps what stands before the start
\* marker and behind the end marker and puts the wrapped block in between.
C5_ClosingMarkerPair ==
    Updated =>
        \A i \in DOMAIN original, j \in DOMAIN original :
            ( /\ MarkerPair(original, i, j)
              /\ \A k \in 1..(i - 1) : original[k] # START
              /\ \A k \in (i + 1)..(j - 1) : original[k] # END )
            => file = Before(original, i) \o Wrapped \o After(original, j)

\* C5 amended: the update keeps what stands before the first start marker
\* and behind the last end marker and puts the wrapped block in between.
C5_OutermostMarkerPair ==
    Updated =>
        \A i \in DOMAIN original, j \in DOMAIN original :
            ( /\ MarkerPair(original, i, j)
              /\ \A k \in 1..(i - 1) : original[k] # START
              /\ \A k \in (j + 1)..Len(original) : original[k] # END )
            => file = Before(original, i) \o Wrapped \o After(original, j)

\* Text before the first start marker, and an end marker between it and
\* the last end marker.
C5_Witness ==
    /\ Updated
    /\ \E i \in DOMAIN original, j \in DOMAIN original :
        /\ MarkerPair(original, i, j)
        /\ i > 1
        /\ \A k \in 1..(i - 1) : original[k] # START
        /\ \A k \in (j + 1)..Len(original) : original[k] # END
        /\ \E k \in (i + 1)..(j - 1) : original[k] = END
        /\ file = Before(original, i) \o Wrapped \o After(original, j)

\* C6: a second update in succession with the same rendered block leaves
\* the document as the first update left it; where the first update found
\* its markers, the wrapped block stands in it once, with as many markers
\* as after the first update.
C6_UpdateIdempotent ==
    (Updated /\ run > 1 /\ prev.wrote /\ md = prev.md) =>
        /\ file = prev.file
        /\ original = prev.file
        /\ (\E i, j \in DOMAIN prev.original : MarkerPair(prev.original, i, j)) =>
            /\ Cardinality({i \in 1..(Len(file) - Len(Wrapped) + 1) :
                    SubSeq(file, i, i + Len(Wrapped) - 1) = Wrapped}) = 1
            /\ Cardinality(Starts(file)) = Cardinality(Starts(prev.file))
            /\ Cardinality(Ends(file)) = Cardinality(Ends(prev.file))

C6_Witness ==
    /\ Updated
    /\ run > 1
    /\ prev.wrote
    /\ md = prev.md
    /\ prev.file # prev.original
    /\ Len(file) > Len(Wrapped)

\* C9: the count query is the first request and the detail query the
\* second and last; the detail query is out only after a clean count
\* response, the document is written at most once and only after a clean
\* detail response, and a run whose count query failed has ended with the
\* count query its only request.
C9_RunOrder ==
    /\ requests \in {<<>>, <<"count">>, Both}
    /\ writes \in {0, 1}
    /\ pc = "start" => requests = <<>> /\ writes = 0
    /\ pc = "await_count" => requests = <<"count">> /\ writes = 0
    /\ pc = "await_detail" => requests = Both /\ writes = 0 /\ ~fetchFailed
    /\ writes = 1 => requests = Both /\ ~fetchFailed /\ Succeeded
    /\ (fetchFailed /\ requests = <<"count">>) => pc = "exited" /\ exitCode = 1

C9_Witness ==
    /\ fetchFailed
    /\ requests = <<"count">>
    /\ pc = "exited"
    /\ run = 1

\* No start marker of the document has an end marker behind it.
NoMarkedRegion(doc) ==
    ~\E i \in DOMAIN doc, j \in DOMAIN doc : MarkerPair(doc, i, j)

\* C10: a run that got both responses has written the document and ended
\* with status 0, and a document without a start marker followed by an end
\* marker is written back as it was read.
C10_NoMarkersNoChange ==
    Succeeded =>
        /\ writes = 1
        /\ NoMarkedRegion(original) => file = original

\* An end marker in front of a start marker.
C10_Witness ==
    /\ Succeeded
    /\ writes = 1
    /\ NoMarkedRegion(original)
    /\ Starts(original) # {}
    /\ Ends(original) # {}
    /\ file = original

====
